---------------------------- MODULE Spec2Model ----------------------------
(***************************************************************************)
(* Model of rusty-search (src/src/lib.rs): root finding by a sign-change   *)
(* scan (find_bisections) followed by Newton-Raphson refinement (newton),  *)
(* composed by root_search.                                                *)
(*                                                                         *)
(* The scalar type T: DualNumFloat is modelled as a binary floating-point  *)
(* format with MantBits bits of precision, round-to-nearest-even,          *)
(* gradual underflow, overflow to infinity and NaN, i.e. IEEE-754          *)
(* arithmetic scaled down from f32's 24 bits.  A value is a tuple          *)
(* <<cls, m, e>>: cls = "fin" stands for m * 2^e (m signed), cls = "inf"   *)
(* for an infinity of sign m, cls = "nan" for NaN.  Zero is unsigned.      *)
(***************************************************************************)
EXTENDS Integers, Sequences, FiniteSets, TLC

-----------------------------------------------------------------------------
(* The floating-point type T *)

\* precision of T in bits (24 for f32)
MantBits == 9
\* exponent of the smallest quantum of T
MinExp == -60
\* largest exponent of a finite value of T
MaxExp == 20

Pow2(n) == 2 ^ n

Abs(n) == IF n < 0 THEN -n ELSE n

Sign(n) == IF n > 0 THEN 1 ELSE IF n < 0 THEN -1 ELSE 0

Max(a, b) == IF a > b THEN a ELSE b

RECURSIVE BitLen(_)
BitLen(n) == IF n = 0 THEN 0 ELSE 1 + BitLen(n \div 2)

Fin(m, e) == <<"fin", m, e>>

Inf(s) == <<"inf", s, 0>>

NaN == <<"nan", 0, 0>>

Zero == Fin(0, MinExp)

IsNaN(x) == x[1] = "nan"

IsFin(x) == x[1] = "fin"

IsInf(x) == x[1] = "inf"

\* M * 2^E rounded to the nearest value of T, ties to even
Round(M, E) ==
    IF M = 0 THEN Zero
    ELSE LET s  == Sign(M)
             A  == Abs(M)
             bl == BitLen(A)
             sh == Max(bl - MantBits, MinExp - E)
         IN  IF sh <= 0
             THEN IF E + sh > MaxExp THEN Inf(s)
                  ELSE Fin(s * A * Pow2(-sh), E + sh)
             ELSE IF sh > bl + 1 THEN Zero
             ELSE LET q    == A \div Pow2(sh)
                      r    == A % Pow2(sh)
                      half == Pow2(sh - 1)
                      up   == r > half \/ (r = half /\ q % 2 = 1)
                      q1   == IF up THEN q + 1 ELSE q
                      m    == IF q1 = Pow2(MantBits) THEN Pow2(MantBits - 1) ELSE q1
                      e    == IF q1 = Pow2(MantBits) THEN E + sh + 1 ELSE E + sh
                  IN  IF q1 = 0 THEN Zero
                      ELSE IF e > MaxExp THEN Inf(s)
                      ELSE Fin(s * m, e)

\* T::from(i).unwrap()
FromInt(i) == Round(i, 0)

\* T::epsilon(): the gap between 1 and the next value of T
Epsilon == Fin(Pow2(MantBits - 1), -2 * (MantBits - 1))

FNeg(x) == <<x[1], -x[2], x[3]>>

FAbs(x) == <<x[1], Abs(x[2]), x[3]>>

FAdd(x, y) ==
    IF IsNaN(x) \/ IsNaN(y) THEN NaN
    ELSE IF IsInf(x) /\ IsInf(y) THEN (IF x[2] = y[2] THEN x ELSE NaN)
    ELSE IF IsInf(x) THEN x
    ELSE IF IsInf(y) THEN y
    ELSE IF x[2] = 0 THEN y
    ELSE IF y[2] = 0 THEN x
    ELSE LET hi == IF x[3] >= y[3] THEN x ELSE y
             lo == IF x[3] >= y[3] THEN y ELSE x
             d  == hi[3] - lo[3]
         IN  IF d > MantBits + 2 THEN hi
             ELSE Round(hi[2] * Pow2(d) + lo[2], lo[3])

FSub(x, y) == FAdd(x, FNeg(y))

FMul(x, y) ==
    IF IsNaN(x) \/ IsNaN(y) THEN NaN
    ELSE IF IsInf(x) \/ IsInf(y)
         THEN (IF x[2] = 0 \/ y[2] = 0 THEN NaN ELSE Inf(Sign(x[2]) * Sign(y[2])))
    ELSE Round(x[2] * y[2], x[3] + y[3])

FDiv(x, y) ==
    IF IsNaN(x) \/ IsNaN(y) THEN NaN
    ELSE IF IsInf(x) THEN (IF IsInf(y) THEN NaN
                           ELSE Inf(IF y[2] < 0 THEN -x[2] ELSE x[2]))
    ELSE IF IsInf(y) THEN Zero
    ELSE IF y[2] = 0 THEN (IF x[2] = 0 THEN NaN ELSE Inf(Sign(x[2])))
    ELSE LET k == 2 * MantBits + 2 - BitLen(Abs(x[2]))
             n == Abs(x[2]) * Pow2(k)
             q == n \div Abs(y[2])
             r == n % Abs(y[2])
         IN  \* the quotient to MantBits + 2 bits or more, and a sticky bit
             Round(Sign(x[2]) * Sign(y[2]) * (2 * q + (IF r = 0 THEN 0 ELSE 1)),
                   x[3] - y[3] - k - 1)

\* |x| < |y| for finite x, y (both in canonical form)
MagLt(x, y) == x[3] < y[3] \/ (x[3] = y[3] /\ Abs(x[2]) < Abs(y[2]))

\* x < y; false when either is NaN
FLt(x, y) ==
    /\ ~IsNaN(x)
    /\ ~IsNaN(y)
    /\ IF IsInf(x) THEN x[2] = -1 /\ y # x
       ELSE IF IsInf(y) THEN y[2] = 1
       ELSE LET sx == Sign(x[2])
                sy == Sign(y[2])
            IN  \/ sx < sy
                \/ sx = sy /\ sx = 1 /\ MagLt(x, y)
                \/ sx = sy /\ sx = -1 /\ MagLt(y, x)

FGt(x, y) == FLt(y, x)

\* x == y; false when either is NaN
FEq(x, y) == ~IsNaN(x) /\ ~IsNaN(y) /\ x = y

FLe(x, y) == FLt(x, y) \/ FEq(x, y)

-----------------------------------------------------------------------------
(* The derivative-tracking type N (Dual32 in the tests): value and first    *)
(* derivative                                                               *)

One == FromInt(1)

Dual(re, eps) == [re |-> re, eps |-> eps]

\* Coerceable::coerce_from: Dual32::from_re(value)
coerce_from(value) == Dual(value, Zero)

\* Derivable::execute_derivative: self.derive()
execute_derivative(x) == Dual(x.re, One)

\* Derivable::zeroth_derivative: self.re
zeroth_derivative(x) == x.re

\* Derivable::first_derivative: self.eps[0]
first_derivative(x) == x.eps

DConst(c) == Dual(c, Zero)

DSub(x, y) == Dual(FSub(x.re, y.re), FSub(x.eps, y.eps))

\* product rule
DMul(x, y) == Dual(FMul(x.re, y.re), FAdd(FMul(x.re, y.eps), FMul(x.eps, y.re)))

-----------------------------------------------------------------------------
(* The user functions f: Fn(N) -> N the model draws from                    *)

\* x - (1 + epsilon): one simple root
FnLin(x) == DSub(x, DConst(FAdd(One, Epsilon)))

\* x^3: a triple root at 0, where Newton converges only linearly
FnCube(x) == DMul(DMul(x, x), x)

\* x^3 - x: roots -1, 0, 1; Newton started near a turning point lands far away
FnCubic(x) == DSub(DMul(DMul(x, x), x), x)

\* -1 below -1, +1 on [-1, 0) (derivative 0 on both pieces), 1 - x from 0 on
FnMix(x) ==
    IF FLt(x.re, Zero)
    THEN (IF FLt(x.re, FromInt(-1)) THEN DConst(FromInt(-1)) ELSE DConst(One))
    ELSE DSub(DConst(One), x)

\* x - 3 below 1 + epsilon, x + 2 from there on: a sign flip without a root
FnJump(x) ==
    IF FLt(x.re, FAdd(One, Epsilon))
    THEN DSub(x, DConst(FromInt(3)))
    ELSE DSub(x, DConst(FromInt(-2)))

Funcs == {"lin", "cube", "cubic", "mix", "jump"}

\* f(x)
Apply(fn, x) ==
    CASE fn = "lin"   -> FnLin(x)
      [] fn = "cube"  -> FnCube(x)
      [] fn = "cubic" -> FnCubic(x)
      [] fn = "mix"   -> FnMix(x)
      [] fn = "jump"  -> FnJump(x)

-----------------------------------------------------------------------------
(* Bounds of the model and the inputs it draws from                         *)

\* resolution ranges over 1..MaxResolution
MaxResolution == 3
\* patience ranges over 1..MaxPatience
MaxPatience == 3

\* let res = T::from(100).unwrap(): seeds per bracket
Seeds == 100

\* n / 2^k as a value of T
Frac(n, k) == Round(n, -k)

\* (lower, upper) pairs with lower < upper
ValidBounds ==
    { <<FromInt(-2), FromInt(2)>>,
      <<FromInt(-2), Zero>>,
      <<Frac(-3, 1), Frac(3, 1)>>,
      <<One, FAdd(One, Epsilon)>> }

\* (lower, upper) pairs with lower == upper or lower > upper
InvalidBounds ==
    { <<One, One>>, <<FromInt(2), FromInt(-2)>> }

Tolerances == { Frac(1, 4), FromInt(4) }

Guesses == { FromInt(2), Frac(-1, 1), Zero }

None == <<"None", Zero>>

Some(v) == <<"Some", v>>

Pending == <<"Pending", Zero>>

-----------------------------------------------------------------------------
(* State                                                                    *)

VARIABLES
    pc,          \* where control is
    op,          \* the operation the host called
    f, lower, upper, resolution, patience, tolerance,   \* its arguments
    step, i, values,              \* find_bisections: locals
    bisections, roots, bk, si,    \* root_search: locals (bk: index of the
                                  \* bracket of the outer loop, si: i of the seed loop)
    guess, current, count, ret,   \* newton: argument, locals, return value
    evals,       \* history: evaluations of f by the running newton call
    fails,       \* history: tolerance checks the running newton call failed
    hist,        \* history: <<guess, ret>> of the seeds tried so far in bracket bk
    summ,        \* history: hist of each bracket the outer loop has left
    origin,      \* history: for each root of roots, the index of its bracket
    work         \* history: calls of find_bisections, calls of newton, evaluations of f

args == <<op, f, lower, upper, resolution, patience, tolerance>>
scanv == <<step, i, values>>
searchv == <<bisections, roots, bk, si>>
newtonv == <<guess, current, count, ret, evals, fails>>
histv == <<hist, summ, origin>>
vars == <<pc, args, scanv, searchv, newtonv, histv, work>>

NoWork == [find_bisections |-> 0, newton |-> 0, f |-> 0]

Init ==
    /\ pc = "idle"
    /\ op = "none"
    /\ f = "lin"
    /\ lower = Zero /\ upper = Zero
    /\ resolution = 0 /\ patience = 0
    /\ tolerance = Zero
    /\ step = Zero /\ i = 0 /\ values = <<>>
    /\ bisections = <<>> /\ roots = <<>> /\ bk = 0 /\ si = 0
    /\ guess = Zero /\ current = Zero /\ count = 0 /\ ret = Pending
    /\ evals = 0 /\ fails = 0
    /\ hist = <<>> /\ summ = <<>> /\ origin = <<>>
    /\ work = NoWork

-----------------------------------------------------------------------------
(* find_bisections                                                          *)

\* line 51: (upper - lower) / T::from(resolution) + T::epsilon()
ScanStepSize(lo, up, res) == FAdd(FDiv(FSub(up, lo), FromInt(res)), Epsilon)

\* variant: the sample index is off by one
ScanPoint_OffByOne(lo, st, k) == FAdd(lo, FMul(st, FromInt(k + 1)))

\* lines 56-57: lower + step * T::from(k)
ScanPoint(lo, st, k) == FAdd(lo, FMul(st, FromInt(k)))

\* f(N::coerce_from(x)).zeroth_derivative()
Value(fn, x) == zeroth_derivative(Apply(fn, coerce_from(x)))

\* variant: the comparisons with zero are not strict
SignFlip_NonStrict(fa, fb) ==
    \/ FLe(Zero, fa) /\ FLe(fb, Zero)
    \/ FLe(fa, Zero) /\ FLe(Zero, fb)

\* lines 60-62: pos2neg || neg2pos
SignFlip(fa, fb) ==
    \/ FGt(fa, Zero) /\ FLt(fb, Zero)
    \/ FLt(fa, Zero) /\ FGt(fb, Zero)

\* lines 51-53: entry of find_bisections
EnterScan(lo, up, res) ==
    /\ step' = ScanStepSize(lo, up, res)
    /\ i' = 0
    /\ values' = <<>>
    /\ work' = [work EXCEPT !.find_bisections = @ + 1]

\* lines 55-65: one iteration of the scan loop
ScanStep ==
    /\ pc = "scan"
    /\ i < resolution
    /\ LET a  == ScanPoint(lower, step, i)
           b  == ScanPoint(lower, step, i + 1)
           fa == Value(f, a)
           fb == Value(f, b)
       IN  values' = IF SignFlip(fa, fb) THEN Append(values, <<a, b>>) ELSE values
    /\ i' = i + 1
    /\ work' = [work EXCEPT !.f = @ + 2]
    /\ UNCHANGED <<pc, args, step, searchv, newtonv, histv>>

\* line 66 when the host called find_bisections
ScanReturnToHost ==
    /\ pc = "scan"
    /\ i >= resolution
    /\ op = "find_bisections"
    /\ pc' = "done"
    /\ UNCHANGED <<args, scanv, searchv, newtonv, histv, work>>

\* line 66, then lines 81-82 of root_search
ScanReturnToSearch ==
    /\ pc = "scan"
    /\ i >= resolution
    /\ op = "root_search"
    /\ bisections' = values
    /\ roots' = <<>>
    /\ bk' = 1
    /\ si' = 0
    /\ pc' = "seed"
    /\ UNCHANGED <<args, scanv, newtonv, histv, work>>

\* the host calls find_bisections
CallFindBisections ==
    /\ pc = "idle"
    /\ \E fn \in Funcs, b \in ValidBounds, res \in 1..MaxResolution :
          /\ op' = "find_bisections"
          /\ f' = fn
          /\ lower' = b[1]
          /\ upper' = b[2]
          /\ resolution' = res
          /\ EnterScan(b[1], b[2], res)
    /\ pc' = "scan"
    /\ UNCHANGED <<patience, tolerance, searchv, newtonv, histv>>

-----------------------------------------------------------------------------
(* newton                                                                   *)

\* lines 26-28: x.zeroth_derivative() - z.zeroth_derivative() / z.first_derivative()
NewtonNext(fn, cur) ==
    LET x == execute_derivative(coerce_from(cur))
        z == Apply(fn, x)
    IN  FSub(zeroth_derivative(x),
             FDiv(zeroth_derivative(z), first_derivative(z)))

\* lines 29-30: diff.abs() < tolerance
Converged(next, cur, tol) == FLt(FAbs(FSub(next, cur)), tol)

\* line 34: count > patience
GiveUp(cnt, pat) == cnt > pat

\* lines 22-23: entry of newton
EnterNewton(g) ==
    /\ guess' = g
    /\ current' = g
    /\ count' = 0
    /\ ret' = Pending
    /\ evals' = 0
    /\ fails' = 0
    /\ work' = [work EXCEPT !.newton = @ + 1]

\* lines 24-42: one iteration of the loop
NewtonIter ==
    /\ pc = "newton"
    /\ LET cnt  == count + 1
           next == NewtonNext(f, current)
       IN  /\ count' = cnt
           /\ evals' = evals + 1
           /\ IF Converged(next, current, tolerance)
              THEN /\ ret' = Some(next)
                   /\ pc' = "returned"
                   /\ UNCHANGED <<current, fails>>
              ELSE /\ fails' = fails + 1
                   /\ IF GiveUp(cnt, patience)
                      THEN /\ ret' = None
                           /\ pc' = "returned"
                           /\ UNCHANGED current
                      ELSE /\ current' = next
                           /\ UNCHANGED <<ret, pc>>
    /\ work' = [work EXCEPT !.f = @ + 1]
    /\ UNCHANGED <<args, scanv, searchv, guess, histv>>

\* newton returns to the host
NewtonReturnToHost ==
    /\ pc = "returned"
    /\ op = "newton"
    /\ pc' = "done"
    /\ UNCHANGED <<args, scanv, searchv, newtonv, histv, work>>

\* the host calls newton
CallNewton ==
    /\ pc = "idle"
    /\ \E fn \in Funcs, g \in Guesses, pat \in 1..MaxPatience, tol \in Tolerances :
          /\ op' = "newton"
          /\ f' = fn
          /\ patience' = pat
          /\ tolerance' = tol
          /\ EnterNewton(g)
    /\ pc' = "newton"
    /\ UNCHANGED <<lower, upper, resolution, scanv, searchv, histv>>

-----------------------------------------------------------------------------
(* root_search                                                              *)

\* variant: the check of line 78 is missing
BoundsInvalid_OnlyInverted(lo, up) == FGt(lo, up)

\* lines 75-80: the two panics
BoundsInvalid(lo, up) == FGt(lo, up) \/ FEq(lo, up)

\* variant: the seeds start one step into the bracket
SeedGuess_FromOne(b, k) ==
    FAdd(b[1], FMul(FromInt(k + 1), FDiv(FSub(b[2], b[1]), FromInt(Seeds))))

\* lines 84-87: bisection.0 + T::from(i) * ((bisection.1 - bisection.0) / res)
SeedGuess(b, k) ==
    FAdd(b[1], FMul(FromInt(k), FDiv(FSub(b[2], b[1]), FromInt(Seeds))))

\* variant: the upper end is not checked
Accept_LowerOnly(b, root) == FLt(b[1], root)

\* line 93: bisection.0 < root && root < bisection.1
Accept(b, root) == FLt(b[1], root) /\ FLt(root, b[2])

\* the host calls root_search: lines 75-81
CallRootSearch ==
    /\ pc = "idle"
    /\ \E fn \in Funcs, b \in ValidBounds \cup InvalidBounds,
          res \in 1..MaxResolution, pat \in 1..MaxPatience, tol \in Tolerances :
          /\ op' = "root_search"
          /\ f' = fn
          /\ lower' = b[1]
          /\ upper' = b[2]
          /\ resolution' = res
          /\ patience' = pat
          /\ tolerance' = tol
          /\ IF BoundsInvalid(b[1], b[2])
             THEN /\ pc' = "panicked"
                  /\ UNCHANGED <<scanv, work>>
             ELSE /\ pc' = "scan"
                  /\ EnterScan(b[1], b[2], res)
    /\ UNCHANGED <<searchv, newtonv, histv>>

\* lines 83-88: the next seed of bracket bk is handed to newton
SeedCall ==
    /\ pc = "seed"
    /\ bk <= Len(bisections)
    /\ EnterNewton(SeedGuess(bisections[bk], si))
    /\ pc' = "newton"
    /\ UNCHANGED <<args, scanv, searchv, histv>>

\* variant: continue instead of break after a failed refinement
SeedOutcome_ContinueOnNone(b, r) ==
    IF r = None THEN [push |-> FALSE, leave |-> FALSE]
    ELSE IF Accept(b, r[2]) THEN [push |-> TRUE, leave |-> TRUE]
    ELSE [push |-> FALSE, leave |-> FALSE]

\* variant: the break after roots.push(root) is missing
SeedOutcome_NoBreakOnAccept(b, r) ==
    IF r = None THEN [push |-> FALSE, leave |-> TRUE]
    ELSE IF Accept(b, r[2]) THEN [push |-> TRUE, leave |-> FALSE]
    ELSE [push |-> FALSE, leave |-> FALSE]

\* lines 89-99: what newton's result r does to the seed loop of bracket b:
\* push the root or not, leave the loop (break) or not.  The else-if of
\* lines 96-98 repeats the condition of line 93 and is never taken.
SeedOutcome(b, r) ==
    IF r = None THEN [push |-> FALSE, leave |-> TRUE]
    ELSE IF Accept(b, r[2]) THEN [push |-> TRUE, leave |-> TRUE]
    ELSE [push |-> FALSE, leave |-> FALSE]

\* lines 86-100: newton's result for seed si of bracket bk
SeedReturn ==
    /\ pc = "returned"
    /\ op = "root_search"
    /\ LET o == SeedOutcome(bisections[bk], ret)
           h == Append(hist, <<guess, ret>>)
       IN  /\ roots' = IF o.push THEN Append(roots, ret[2]) ELSE roots
           /\ origin' = IF o.push THEN Append(origin, bk) ELSE origin
           /\ IF o.leave \/ si + 1 >= Seeds
              THEN /\ bk' = bk + 1
                   /\ si' = 0
                   /\ hist' = <<>>
                   /\ summ' = Append(summ, h)
              ELSE /\ si' = si + 1
                   /\ hist' = h
                   /\ UNCHANGED <<bk, summ>>
    /\ pc' = "seed"
    /\ UNCHANGED <<args, scanv, bisections, newtonv, work>>

\* line 103: (roots, bisections)
RootSearchReturn ==
    /\ pc = "seed"
    /\ bk > Len(bisections)
    /\ pc' = "done"
    /\ UNCHANGED <<args, scanv, searchv, newtonv, histv, work>>

-----------------------------------------------------------------------------

Next ==
    \/ CallNewton
    \/ CallFindBisections
    \/ CallRootSearch
    \/ ScanStep
    \/ ScanReturnToHost
    \/ ScanReturnToSearch
    \/ NewtonIter
    \/ NewtonReturnToHost
    \/ SeedCall
    \/ SeedReturn
    \/ RootSearchReturn

Spec == Init /\ [][Next]_vars

-----------------------------------------------------------------------------
(* Properties                                                               *)

IsSome(r) == r[1] = "Some"

\* a < r < b
StrictlyInside(b, r) == FLt(b[1], r) /\ FLt(r, b[2])

\* -1, 0 or 1; 0 for NaN too
FSign(x) == IF IsNaN(x) THEN 0 ELSE Sign(x[2])

Last(h) == h[Len(h)]

InRootSearch == op = "root_search" /\ pc \in {"seed", "newton", "returned", "done"}

Finished == op = "root_search" /\ pc = "done"

\* C1: every root root_search returns lies strictly inside the open interval
\* (a, b) of the bracket it was refined from, a bracket of the returned list.
C1_RootInsideItsBracket ==
    InRootSearch =>
        /\ Len(origin) = Len(roots)
        /\ \A j \in 1..Len(roots) :
              /\ origin[j] \in 1..Len(bisections)
              /\ StrictlyInside(bisections[origin[j]], roots[j])

\* C1 witness: a finished search that accepted two roots and, in some bracket,
\* first discarded a refined root
C1_Witness ==
    /\ Finished
    /\ Len(roots) >= 2
    /\ \E k \in 1..Len(summ) : Len(summ[k]) > 1 /\ IsSome(Last(summ[k])[2])

\* C2: root_search with lower == upper or lower > upper panics before any
\* work: no call of find_bisections, no call of newton, no evaluation of f.
C2_InvalidBoundsNoWork ==
    (op = "root_search" /\ (FEq(lower, upper) \/ FGt(lower, upper)))
        => (pc = "panicked" /\ work = NoWork)

\* C2 witness: root_search has panicked on equal bounds
C2_Witness == pc = "panicked" /\ FEq(lower, upper)

\* C3: newton evaluates f at most patience times before it returns.
C3_AtMostPatienceEvaluations == evals <= patience

\* the k-th sample of the scan, k = 0..resolution
SampleAt(k) ==
    FAdd(lower,
         FMul(FAdd(FDiv(FSub(upper, lower), FromInt(resolution)), Epsilon),
              FromInt(k)))

\* sub-interval k: one endpoint value strictly positive, the other strictly negative
StrictFlipAt(k) ==
    FSign(Value(f, SampleAt(k))) * FSign(Value(f, SampleAt(k + 1))) = -1

\* the sub-intervals among the first n that show a strict sign flip
FlipsBelow(n) == { k \in 0..(n - 1) : StrictFlipAt(k) }

Scanning == op \in {"find_bisections", "root_search"} /\ pc # "panicked"

\* C4: find_bisections returns exactly the sub-intervals (lower + step*k,
\* lower + step*(k+1)), k in 0..resolution, whose endpoint values show a
\* strict sign flip, each once and in ascending order of k (after i
\* iterations: those with k < i); a sub-interval with a zero endpoint value
\* or two values of the same sign is not reported.
C4_ExactlyTheStrictFlips ==
    Scanning =>
        LET S == FlipsBelow(i)
        IN  /\ Len(values) = Cardinality(S)
            /\ \A j \in 1..Len(values) :
                  \E k \in S :
                     /\ Cardinality({ m \in S : m < k }) = j - 1
                     /\ values[j] = <<SampleAt(k), SampleAt(k + 1)>>

\* C4 witness: a finished scan that reported two sub-intervals or more and
\* left one out
C4_Witness ==
    /\ op = "find_bisections"
    /\ pc = "done"
    /\ Len(values) >= 2
    /\ Len(values) < resolution

\* C5: root_search accepts at most one root per bracket, in bracket order:
\* roots is never longer than bisections, and a strictly increasing map from
\* root positions to bracket positions puts each root inside its bracket.
C5_OneRootPerBracketInOrder ==
    InRootSearch =>
        /\ Len(roots) <= Len(bisections)
        /\ \E map \in [1..Len(roots) -> 1..Len(bisections)] :
              /\ \A j \in 1..Len(roots) : StrictlyInside(bisections[map[j]], roots[j])
              /\ \A j \in 1..Len(roots) : \A n \in 1..Len(roots) :
                    j < n => map[j] < map[n]

\* C5 witness: a finished search whose two roots come from the first and the
\* third bracket
C5_Witness == Finished /\ Len(roots) = 2 /\ origin = <<1, 3>>

NewtonReturned == pc = "returned" \/ (pc = "done" /\ op = "newton")

\* C6: newton returns Some(v) only for the iterate v = next of its last
\* iteration, with |next - current| < tolerance; when none of the first
\* patience tolerance checks is satisfied it returns None and never a value,
\* also when the estimate has become infinite or NaN, and it never panics.
C6_NoneOnceBudgetSpent ==
    NewtonReturned =>
        LET next == NewtonNext(f, current)
        IN  \/ /\ IsSome(ret)
               /\ ret[2] = next
               /\ FLt(FAbs(FSub(next, current)), tolerance)
               /\ fails < patience
            \/ /\ ret = None
               /\ ~FLt(FAbs(FSub(next, current)), tolerance)
               /\ fails >= patience

\* the seeds tried and the results they got, bracket by bracket, of the
\* brackets root_search has left
Tried(k) == summ[k]

\* C9: after a None from newton no later seed of that bracket is tried (the
\* None is the last entry of the bracket's record and the bracket in
\* progress has none), no root is accepted for that bracket, and the search
\* goes on: every bracket is visited, in order, and gets at least one seed.
C9_NoneAbandonsBracketOnly ==
    InRootSearch =>
        /\ \A j \in 1..Len(hist) : hist[j][2] # None
        /\ Len(summ) = (IF pc = "done" THEN Len(bisections) ELSE bk - 1)
        /\ \A k \in 1..Len(summ) :
              /\ Len(Tried(k)) >= 1
              /\ \A j \in 1..Len(Tried(k)) :
                    Tried(k)[j][2] = None =>
                       /\ j = Len(Tried(k))
                       /\ \A n \in 1..Len(origin) : origin[n] # k
                       /\ \A n \in 1..Len(roots) :
                             ~StrictlyInside(bisections[k], roots[n])

\* C9 witness: a finished search that abandoned a bracket after a None and
\* accepted a root in a later bracket
C9_Witness ==
    /\ Finished
    /\ \E k \in 1..Len(summ) :
          /\ Last(Tried(k))[2] = None
          /\ \E n \in 1..Len(origin) : origin[n] > k

\* the last sample of the scan: lower + step * resolution
LastSample ==
    FAdd(lower,
         FMul(FAdd(FDiv(FSub(upper, lower), FromInt(resolution)), Epsilon),
              FromInt(resolution)))

BracketsWithin(top) ==
    \A j \in 1..Len(values) :
       /\ FLe(lower, values[j][1])
       /\ FLt(values[j][1], values[j][2])
       /\ FLe(values[j][2], top)

\* C10 as stated: every bracket (a, b) of the scan satisfies
\* lower <= a < b <= upper.
C10_BracketsWithinBounds == Scanning => BracketsWithin(upper)

\* C10 amended: every bracket (a, b) of the scan satisfies
\* lower <= a < b <= lower + step * resolution, where
\* step = (upper - lower) / resolution + epsilon, so b can pass upper.
C10_BracketsWithinSamples == Scanning => BracketsWithin(LastSample)

\* C10 witness: a returned bracket whose right end lies beyond upper
C10_Witness ==
    /\ op = "find_bisections"
    /\ pc = "done"
    /\ \E j \in 1..Len(values) : FGt(values[j][2], upper)

\* seed k of bracket b: a + k * ((b - a) / 100)
SeedOf(b, k) ==
    FAdd(b[1], FMul(FromInt(k), FDiv(FSub(b[2], b[1]), FromInt(Seeds))))

\* g lies in [a, b] (closed) or in [a, b)
SeedInRange(b, g, closed) ==
    /\ FLe(b[1], g)
    /\ IF closed THEN FLe(g, b[2]) ELSE FLt(g, b[2])

\* r is a newton result that root_search discards: a value outside (a, b)
Discarded(b, r) == IsSome(r) /\ ~StrictlyInside(b, r[2])

\* r is a newton result that root_search accepts: a value inside (a, b)
Accepted(b, r) == IsSome(r) /\ StrictlyInside(b, r[2])

\* the record h of the seeds tried in bracket number k so far: seed number j
\* is a + (j-1)*(b-a)/100 and lies in range, and every seed before the last
\* one was discarded
SeedsInOrder(k, h, closed) ==
    /\ Len(h) <= Seeds
    /\ \A j \in 1..Len(h) :
          /\ h[j][1] = SeedOf(bisections[k], j - 1)
          /\ SeedInRange(bisections[k], h[j][1], closed)
          /\ j < Len(h) => Discarded(bisections[k], h[j][2])

\* the seed loop of bracket k is over: a discarded last result means that all
\* 100 seeds were tried, and the bracket has a root exactly if its last
\* result was accepted, that result being the root
BracketClosed(k) ==
    /\ Discarded(bisections[k], Last(summ[k])[2]) => Len(summ[k]) = Seeds
    /\ Accepted(bisections[k], Last(summ[k])[2]) <=>
          \E n \in 1..Len(origin) : origin[n] = k
    /\ \A n \in 1..Len(origin) :
          origin[n] = k => roots[n] = Last(summ[k])[2][2]

SeedDiscipline(closed) ==
    InRootSearch =>
        /\ \A k \in 1..Len(summ) :
              SeedsInOrder(k, summ[k], closed) /\ BracketClosed(k)
        /\ pc \in {"newton", "returned"} =>
              /\ Len(hist) = si
              /\ SeedsInOrder(bk, Append(hist, <<guess, None>>), closed)
              /\ \A n \in 1..Len(origin) : origin[n] # bk

\* C8 as stated: in a bracket (a, b) the seeds a + i*(b-a)/100, i = 0..99,
\* are tried in ascending order of i and all lie in [a, b); a result outside
\* (a, b) is discarded and the next seed is tried; the first result inside
\* (a, b) is the bracket's root and no further seed is tried.
C8_SeedsHalfOpen == SeedDiscipline(FALSE)

\* C8 amended: the same, with all seeds in the closed interval [a, b]: in a
\* bracket a few units in the last place wide the late seeds round up to b.
C8_SeedsClosed == SeedDiscipline(TRUE)

\* C8 witness: a finished search with a bracket whose first seeds were
\* discarded and whose root came from a later seed
C8_Witness ==
    /\ Finished
    /\ \E k \in 1..Len(summ) :
          /\ Len(summ[k]) >= 2
          /\ Accepted(bisections[k], Last(summ[k])[2])

=============================================================================
